---- MODULE Spec2Model ----
(***************************************************************************)
(* Model of polybar-title-module (src/src/main.rs): the watch loop of      *)
(* real_main/main, Resolver::resolve with its filter chain, the            *)
(* capitalization modes and the WindowIdentifier text form.                *)
(*                                                                         *)
(* Strings are sequences of one-character strings.  Option<T> is a tuple   *)
(* of length 0 (None) or 1 (Some).                                         *)
(***************************************************************************)
EXTENDS Integers, Sequences, FiniteSets, TLC

\* ------------------------------------------------------------------ bounds
\* Resolved lines the loop may print before the model stops delivering events.
MaxLines == 2
\* Window handles the active-window property may hold: 0..MaxWindow.
MaxWindow == 1
\* Longest WindowIdentifier value / longest text handed to the parser.
MaxLen == 3
\* Longest string of CapAlphabet handed to CapitalizeMode::capitalize.
MaxCapLen == 3

\* ------------------------------------------------------------- Option<T>
None == <<>>
Some(x) == <<x>>
IsSome(o) == Len(o) = 1
Unwrap(o) == o[1]
\* Option::or_else
OrElse(o, alt) == IF IsSome(o) THEN o ELSE alt
\* Option<String>::unwrap_or_default
UnwrapOrDefault(o) == IF IsSome(o) THEN o[1] ELSE <<>>

\* ------------------------------------------------------------ characters
LowerLetters ==
    << "a", "b", "c", "d", "e", "f", "g", "h", "i", "j", "k", "l",
       "m", "n", "o", "p", "q", "r", "s", "t", "u", "v", "w", "x", "y", "z" >>
UpperLetters ==
    << "A", "B", "C", "D", "E", "F", "G", "H", "I", "J", "K", "L",
       "M", "N", "O", "P", "Q", "R", "S", "T", "U", "V", "W", "X", "Y", "Z" >>
\* A lowercase letter whose uppercase mapping is two characters, and that
\* has no single uppercase character mapping back to it.
SharpS == "ß"

IndexIn(seq, ch) == CHOOSE i \in 1..Len(seq) : seq[i] = ch
IsLower(ch) == \E i \in 1..Len(LowerLetters) : LowerLetters[i] = ch
\* char::is_lowercase
IsLowercase(ch) == IsLower(ch) \/ ch = SharpS
IsUpper(ch) == \E i \in 1..Len(UpperLetters) : UpperLetters[i] = ch

\* char::to_uppercase: yields a sequence, since a mapping may expand.
ToUppercase(ch) ==
    IF IsLower(ch) THEN <<UpperLetters[IndexIn(LowerLetters, ch)]>>
    ELSE IF ch = SharpS THEN <<"S", "S">>
    ELSE <<ch>>
\* char::to_lowercase
ToLowercase(ch) ==
    IF IsUpper(ch) THEN <<LowerLetters[IndexIn(UpperLetters, ch)]>> ELSE <<ch>>

RECURSIVE StrToLowercase(_)
StrToLowercase(s) ==
    IF s = <<>> THEN <<>> ELSE ToLowercase(Head(s)) \o StrToLowercase(Tail(s))

\* ------------------------------------------------------- capitalization
\* Mutant of capitalize_first: the rest is lowercased.
capitalize_first_LowerRest(s) ==
    IF s = <<>> THEN <<>> ELSE ToUppercase(Head(s)) \o StrToLowercase(Tail(s))

\* capitalize_first: uppercase mapping of the first char, chained with the rest.
capitalize_first(s) ==
    IF s = <<>> THEN <<>> ELSE ToUppercase(Head(s)) \o Tail(s)

\* Word delimiters of convert_case's default boundaries (removed by the split).
Delimiters == {" ", "-", "_"}

\* convert_case's split into words: delimiters separate words and are dropped,
\* a lowercase letter followed by an uppercase one starts a new word, so does
\* the last uppercase letter of a run that a lowercase letter follows, and
\* empty words are dropped.  (The alphabet holds no digits.)
RECURSIVE SplitWords(_, _, _)
SplitWords(s, cur, words) ==
    IF s = <<>>
    THEN IF cur = <<>> THEN words ELSE Append(words, cur)
    ELSE LET ch == Head(s) IN
         IF ch \in Delimiters
         THEN SplitWords(Tail(s), <<>>, IF cur = <<>> THEN words ELSE Append(words, cur))
         ELSE IF cur # <<>> /\ IsLowercase(cur[Len(cur)]) /\ IsUpper(ch)
         THEN SplitWords(Tail(s), <<ch>>, Append(words, cur))
         ELSE IF cur # <<>> /\ IsUpper(cur[Len(cur)]) /\ IsUpper(ch)
                 /\ Len(s) >= 2 /\ IsLowercase(s[2])
         THEN SplitWords(Tail(s), <<ch>>, Append(words, cur))
         ELSE SplitWords(Tail(s), Append(cur, ch), words)

\* Mutant of CapitalWord: the rest of the word is left as it is.
CapitalWord_KeepsRest(w) == ToUppercase(Head(w)) \o Tail(w)

\* convert_case's Capital pattern: first char uppercased, the rest lowercased.
CapitalWord(w) == ToUppercase(Head(w)) \o StrToLowercase(Tail(w))

RECURSIVE JoinWords(_)
JoinWords(words) ==
    IF words = <<>> THEN <<>>
    ELSE IF Len(words) = 1 THEN CapitalWord(words[1])
    ELSE CapitalWord(words[1]) \o <<" ">> \o JoinWords(Tail(words))

\* value.to_case(Case::Title)
to_case_Title(s) == JoinWords(SplitWords(s, <<>>, <<>>))

\* Mutant of capitalize: the two modes swapped.
capitalize_Swapped(mode, value) ==
    IF mode = "FirstLetter" THEN to_case_Title(value) ELSE capitalize_first(value)

\* CapitalizeMode::capitalize
capitalize(mode, value) ==
    IF mode = "FirstLetter" THEN capitalize_first(value) ELSE to_case_Title(value)

CapitalizeMode == {"FirstLetter", "AllWords"}

\* Options::resolve: the capitalization when one is set, else the value itself.
Options_resolve(options, value) ==
    IF IsSome(options.capitalize)
    THEN capitalize(Unwrap(options.capitalize), value)
    ELSE value

\* enum Filter { Options(Options), NewName(String) }: the tag, and the payload
\* in the field of its variant (the other field holds a filler never read).
Filter_Options(o) == [filter |-> "options", options |-> o, name |-> <<>>]
Filter_NewName(s) == [filter |-> "new_name", options |-> [capitalize |-> <<>>], name |-> s]

\* Mutant of Filter_resolve: NewName leaves the class value in place.
Filter_resolve_KeepsClass(filter, wm_class_value) ==
    IF filter.filter = "options"
    THEN Options_resolve(filter.options, wm_class_value)
    ELSE wm_class_value

\* Filter::resolve
Filter_resolve(filter, wm_class_value) ==
    IF filter.filter = "options"
    THEN Options_resolve(filter.options, wm_class_value)
    ELSE filter.name

\* ------------------------------------------------------ WindowIdentifier
WindowIdentifierKind == {"Class", "Name"}

ClassAliases == { <<"w","m","_","c","l","a","s","s">>, <<"w","m","c">>, <<"w","c">>,
                  <<"c">>, <<"c","l","s">>, <<"w","c","l","s">>, <<"c","l","a","s","s">> }
NameAliases == { <<"w","m","_","n","a","m","e">>, <<"w","m","n">>, <<"w","n">>,
                 <<"n">>, <<"n","a","m","e">> }

Ok(x) == <<"Ok", x>>
Err(msg) == <<"Err", msg>>
IsOk(r) == r[1] = "Ok"

\* WindowIdentifierKind::from_str
Kind_from_str(s) ==
    LET l == StrToLowercase(s) IN
    IF l \in ClassAliases THEN Ok("Class")
    ELSE IF l \in NameAliases THEN Ok("Name")
    ELSE Err("unknown window identifier kind")

\* Mutant of split_once: the split is at the last '='.
split_once_Last(s) ==
    IF \E i \in 1..Len(s) : s[i] = "="
    THEN LET i == CHOOSE j \in 1..Len(s) :
                     s[j] = "=" /\ \A k \in (j + 1)..Len(s) : s[k] # "="
         IN Some(<<SubSeq(s, 1, i - 1), SubSeq(s, i + 1, Len(s))>>)
    ELSE None

\* str::split_once('='): splits at the first '=', None when there is none.
split_once(s) ==
    IF \E i \in 1..Len(s) : s[i] = "="
    THEN LET i == CHOOSE j \in 1..Len(s) :
                     s[j] = "=" /\ \A k \in 1..(j - 1) : s[k] # "="
         IN Some(<<SubSeq(s, 1, i - 1), SubSeq(s, i + 1, Len(s))>>)
    ELSE None

\* WindowIdentifier::from_str
WindowIdentifier_from_str(s) ==
    LET parts == split_once(s) IN
    IF ~IsSome(parts) THEN Err("no '=' in window identifier")
    ELSE LET kind == Kind_from_str(Unwrap(parts)[1]) IN
         IF ~IsOk(kind)
         THEN Err("failed to resolve discriminant as a window identifier kind")
         ELSE Ok([kind |-> kind[2], value |-> Unwrap(parts)[2]])

\* <WindowIdentifier as Display>::fmt
WindowIdentifier_fmt(id) ==
    IF id.kind = "Class"
    THEN <<"w","m","_","c","l","a","s","s","=">> \o id.value
    ELSE <<"w","m","_","n","a","m","e","=">> \o id.value

\* ------------------------------------------------------------- Resolver
\* Options { capitalize: Option<CapitalizeMode> }
OptionsValues == { [capitalize |-> c] : c \in {None} \cup { Some(m) : m \in CapitalizeMode } }

\* NewName literals of the rule tables explored.
NewNames == { <<"F">> }

\* The filters of the rule tables explored.
FilterValues ==
    { Filter_Options(o) : o \in OptionsValues } \cup { Filter_NewName(s) : s \in NewNames }

\* WM_CLASS class strings and WM_NAME strings the server may answer with.
ClassReplies == { <<"a", " ", "b">>, <<"c", "d">> }
NameReplies == { <<"n">>, <<"x">> }

\* Keys of the rule tables explored: one matches a class reply, one a name reply.
FilterKeys == { [kind |-> "Class", value |-> <<"a", " ", "b">>],
                [kind |-> "Name", value |-> <<"n">>] }

\* HashMap<WindowIdentifier, Filter>: a function on a set of keys.
FilterTables == UNION { [K -> FilterValues] : K \in SUBSET FilterKeys }

DesktopName == <<"D", "e", "s", "k", "t", "o", "p">>

\* struct Resolver
Resolvers ==
    [ global_options : {None} \cup { Some(o) : o \in OptionsValues },
      desktop_name : {None, Some(DesktopName)},
      filters : FilterTables ]

\* Resolver::default
Resolver_default ==
    [ global_options |-> Some([capitalize |-> Some("FirstLetter")]),
      desktop_name |-> Some(DesktopName),
      filters |-> << >> ]

\* HashMap::get
filters_get(filters, key) ==
    IF key \in DOMAIN filters THEN Some(filters[key]) ELSE None

\* Mutant of NonNullWindow_new: zero is accepted as a window.
NonNullWindow_new_NoZeroCheck(w) == Some(w)

\* NonZeroU32::new
NonNullWindow_new(w) == IF w = 0 THEN None ELSE Some(w)

\* Mutant of Resolver_find_filter: the name key is looked up before the class key.
Resolver_find_filter_NameFirst(resolver, class_value, name_value) ==
    OrElse(
        OrElse(filters_get(resolver.filters, [kind |-> "Name", value |-> name_value]),
               filters_get(resolver.filters, [kind |-> "Class", value |-> class_value])),
        IF IsSome(resolver.global_options)
        THEN Some(Filter_Options(Unwrap(resolver.global_options)))
        ELSE None)

\* Mutant of Resolver_find_filter: global_options, when present, is used
\* before the name key is looked up.
Resolver_find_filter_GlobalBeforeName(resolver, class_value, name_value) ==
    OrElse(
        OrElse(filters_get(resolver.filters, [kind |-> "Class", value |-> class_value]),
               IF IsSome(resolver.global_options)
               THEN Some(Filter_Options(Unwrap(resolver.global_options)))
               ELSE None),
        filters_get(resolver.filters, [kind |-> "Name", value |-> name_value]))

\* The filter Resolver::resolve selects: by class key, or else by name key, or
\* else global_options as an Options filter, or else none.
Resolver_find_filter(resolver, class_value, name_value) ==
    OrElse(
        OrElse(filters_get(resolver.filters, [kind |-> "Class", value |-> class_value]),
               filters_get(resolver.filters, [kind |-> "Name", value |-> name_value])),
        IF IsSome(resolver.global_options)
        THEN Some(Filter_Options(Unwrap(resolver.global_options)))
        ELSE None)

\* Mutant of Resolver_resolve_values: with no filter found, the default
\* capitalization is applied.
Resolver_resolve_values_DefaultCapitalize(resolver, class_value, name_value) ==
    LET filter == Resolver_find_filter(resolver, class_value, name_value) IN
    IF IsSome(filter) THEN Filter_resolve(Unwrap(filter), class_value)
    ELSE capitalize_first(class_value)

\* Mutant of Resolver_resolve_values: a filter found by the name key is
\* applied to the name.
Resolver_resolve_values_NameValue(resolver, class_value, name_value) ==
    LET by_class == filters_get(resolver.filters, [kind |-> "Class", value |-> class_value])
        by_name == filters_get(resolver.filters, [kind |-> "Name", value |-> name_value])
        filter == Resolver_find_filter(resolver, class_value, name_value)
    IN IF ~IsSome(by_class) /\ IsSome(by_name)
       THEN Filter_resolve(Unwrap(by_name), name_value)
       ELSE IF IsSome(filter) THEN Filter_resolve(Unwrap(filter), class_value)
       ELSE class_value

\* Mutant of Resolver_resolve_values: an Options filter without a mode falls
\* back on the mode of global_options.
Resolver_resolve_values_MergesGlobal(resolver, class_value, name_value) ==
    LET filter == Resolver_find_filter(resolver, class_value, name_value) IN
    IF ~IsSome(filter) THEN class_value
    ELSE IF Unwrap(filter).filter = "options"
            /\ ~IsSome(Unwrap(filter).options.capitalize)
            /\ IsSome(resolver.global_options)
    THEN Options_resolve(Unwrap(resolver.global_options), class_value)
    ELSE Filter_resolve(Unwrap(filter), class_value)

\* The string Resolver::resolve returns for a non-zero window once both
\* queries have answered.
Resolver_resolve_values(resolver, class_value, name_value) ==
    LET filter == Resolver_find_filter(resolver, class_value, name_value) IN
    IF IsSome(filter) THEN Filter_resolve(Unwrap(filter), class_value) ELSE class_value

\* The string Resolver::resolve returns for window 0.
Resolver_resolve_desktop(resolver) == UnwrapOrDefault(resolver.desktop_name)

\* ---------------------------------------------------------------- state
VARIABLES
    config,         \* config.resolver, fixed once read
    pc,             \* position in real_main / main
    event,          \* the event wait_for_event returned last
    atom_name,      \* Option: atom_name of the current iteration
    value,          \* Option: the u32 read from the changed property
    wm_class,       \* Option: wm_class inside Resolver::resolve
    wm_name,        \* Option: wm_name inside Resolver::resolve
    resolved_name,  \* Option: what Resolver::resolve returned
    queries,        \* requests sent to the server for the event received last
    property,       \* Option: the GetProperty reply read for the event received last
    class_reply,    \* Option: the WM_CLASS reply read for the event received last
    resolved_log,   \* every string Resolver::resolve has returned, in order
    stdout,         \* the lines printed so far
    error,          \* Option: the error a fallible call of real_main produced
    result,         \* Option: what real_main returned
    exit_code,      \* Option: the ExitCode main returned
    ident,          \* Option: a WindowIdentifier being serialized
    text,           \* Option: a text handed to WindowIdentifier::from_str
    parsed,         \* Option: what WindowIdentifier::from_str returned
    cap_mode,       \* Option: a CapitalizeMode about to be applied
    cap_input,      \* Option: the string it is applied to
    cap_output      \* Option: what CapitalizeMode::capitalize returned

vars == << config, pc, event, atom_name, value, wm_class, wm_name, resolved_name,
           queries, property, class_reply, resolved_log, stdout, error, result, exit_code, ident, text, parsed,
           cap_mode, cap_input, cap_output >>

loop_vars == << config, pc, event, atom_name, value, wm_class, wm_name, resolved_name,
                queries, property, class_reply, resolved_log, stdout, error, result, exit_code >>
ident_vars == << ident, text, parsed >>
cap_vars == << cap_mode, cap_input, cap_output >>

NoEvent == [type |-> "None", atom |-> "none"]
OtherEvent == [type |-> "Other", atom |-> "none"]
\* Atoms a PropertyNotify may carry, and the name the server holds for each.
Atoms == {"active", "other"}
PropertyNotify(a) == [type |-> "PropertyNotify", atom |-> a]
ServerAtomName(a) == IF a = "active" THEN "_NET_ACTIVE_WINDOW" ELSE "WM_NAME"

\* The line main prints when real_main returned an error.
CrashLine == <<"line", "PolyBar title module crashed!">>
\* handlebars.render("template", {name}) as the line println! writes.
RenderedLine(name) == <<"rendered", name>>
\* Mutant of Println: the line goes in front of the earlier ones.
Println_Prepend(out, line) == <<line>> \o out

\* println!
Println(out, line) == Append(out, line)

Init ==
    /\ config \in Resolvers
    /\ pc = "template"
    /\ event = NoEvent
    /\ atom_name = None
    /\ value = None
    /\ wm_class = None
    /\ wm_name = None
    /\ resolved_name = None
    /\ queries = <<>>
    /\ property = None
    /\ class_reply = None
    /\ resolved_log = <<>>
    /\ stdout = <<>>
    /\ error = None
    /\ result = None
    /\ exit_code = None
    /\ ident = None
    /\ text = None
    /\ parsed = None
    /\ cap_mode = None
    /\ cap_input = None
    /\ cap_output = None

\* The locals of one loop iteration going out of scope.
DropLocals ==
    /\ atom_name' = None
    /\ value' = None
    /\ wm_class' = None
    /\ wm_name' = None
    /\ resolved_name' = None

\* Mutant of ReturnErr: the error is noted and the loop waits for the next event.
ReturnErr_Continue(msg) ==
    /\ error' = Some(msg)
    /\ pc' = "wait"
    /\ DropLocals
    /\ UNCHANGED << config, event, resolved_log, stdout, result, exit_code, ident_vars, cap_vars >>

\* `?` on an Err: real_main returns the error with its context.
ReturnErr(msg) ==
    /\ error' = Some(msg)
    /\ pc' = "returned"
    /\ result' = Some(Err(msg))
    /\ DropLocals
    /\ UNCHANGED << config, event, resolved_log, stdout, exit_code, ident_vars, cap_vars >>

\* The loop body ends and the loop waits again.
NextIteration ==
    /\ pc' = "wait"
    /\ DropLocals
    /\ UNCHANGED << config, event, resolved_log, error, result, exit_code, ident_vars, cap_vars >>

\* handlebars.register_template_string
RegisterTemplate ==
    /\ pc = "template"
    /\ \/ /\ pc' = "connect"
          /\ UNCHANGED << config, event, atom_name, value, wm_class, wm_name, resolved_name,
                          resolved_log, stdout, error, result, exit_code, ident_vars, cap_vars >>
       \/ ReturnErr("failed to register template string")
    /\ UNCHANGED << queries, property, class_reply >>

\* x11rb::connect
Connect ==
    /\ pc = "connect"
    /\ \/ /\ pc' = "subscribe"
          /\ UNCHANGED << config, event, atom_name, value, wm_class, wm_name, resolved_name,
                          resolved_log, stdout, error, result, exit_code, ident_vars, cap_vars >>
       \/ ReturnErr("failed to establish a connection to the X server")
    /\ UNCHANGED << queries, property, class_reply >>

\* Mutant of Subscribe: a failed registration is noted and the loop starts.
Subscribe_IgnoresFailure ==
    /\ pc = "subscribe"
    /\ pc' = "wait"
    /\ \/ UNCHANGED error
       \/ \E msg \in {"failed to make ChangeWindowAttributes reply",
                      "ChangeWindowAttributes response failed"} : error' = Some(msg)
    /\ UNCHANGED << config, event, atom_name, value, wm_class, wm_name, resolved_name,
                    resolved_log, stdout, result, exit_code, ident_vars, cap_vars >>
    /\ UNCHANGED << queries, property, class_reply >>

\* change_window_attributes(root, PROPERTY_CHANGE) and its check
Subscribe ==
    /\ pc = "subscribe"
    /\ \/ /\ pc' = "wait"
          /\ UNCHANGED << config, event, atom_name, value, wm_class, wm_name, resolved_name,
                          resolved_log, stdout, error, result, exit_code, ident_vars, cap_vars >>
       \/ \E msg \in {"failed to make ChangeWindowAttributes reply",
                      "ChangeWindowAttributes response failed"} : ReturnErr(msg)
    /\ UNCHANGED << queries, property, class_reply >>

\* wait_for_event fails
WaitForEventFail ==
    /\ pc = "wait"
    /\ UNCHANGED << queries, property, class_reply >>
    /\ ReturnErr("could not wait for event")

\* wait_for_event returns an event that is no PropertyNotify: it is logged and
\* the loop waits again.
ReceiveOtherEvent ==
    /\ pc = "wait"
    /\ Len(stdout) < MaxLines
    /\ event' = OtherEvent
    /\ queries' = <<>>
    /\ property' = None
    /\ class_reply' = None
    /\ UNCHANGED << config, pc, atom_name, value, wm_class, wm_name, resolved_name,
                    resolved_log, stdout, error, result, exit_code, ident_vars, cap_vars >>

\* Mutant of ReceivePropertyNotify: the atom of the event is compared before
\* its name is asked for, and a notification for another atom is discarded
\* without a query.
ReceivePropertyNotify_ChecksAtomFirst ==
    /\ pc = "wait"
    /\ Len(stdout) < MaxLines
    /\ \E a \in Atoms :
          /\ event' = PropertyNotify(a)
          /\ pc' = IF ServerAtomName(a) = "_NET_ACTIVE_WINDOW" THEN "atom" ELSE "wait"
    /\ queries' = <<>>
    /\ property' = None
    /\ class_reply' = None
    /\ UNCHANGED << config, atom_name, value, wm_class, wm_name, resolved_name,
                    resolved_log, stdout, error, result, exit_code, ident_vars, cap_vars >>

\* wait_for_event returns a PropertyNotify
ReceivePropertyNotify ==
    /\ pc = "wait"
    /\ Len(stdout) < MaxLines
    /\ \E a \in Atoms : event' = PropertyNotify(a)
    /\ queries' = <<>>
    /\ property' = None
    /\ class_reply' = None
    /\ pc' = "atom"
    /\ UNCHANGED << config, atom_name, value, wm_class, wm_name, resolved_name,
                    resolved_log, stdout, error, result, exit_code, ident_vars, cap_vars >>

\* get_atom_name(event.atom) fails, or the name is not UTF-8
GetAtomNameFail ==
    /\ pc = "atom"
    /\ queries' = Append(queries, "GetAtomName")
    /\ UNCHANGED << property, class_reply >>
    /\ \E msg \in {"failed to make GetAtomName reply", "GetAtomName response failed",
                   "atom name contains invalid utf-8"} : ReturnErr(msg)

\* Mutant of GetAtomName: the name is not compared, every property counts as
\* the active-window property.
GetAtomName_NoRelevanceCheck ==
    /\ pc = "atom"
    /\ queries' = Append(queries, "GetAtomName")
    /\ UNCHANGED << property, class_reply >>
    /\ atom_name' = Some(ServerAtomName(event.atom))
    /\ pc' = "property"
    /\ UNCHANGED << config, event, value, wm_class, wm_name, resolved_name,
                    resolved_log, stdout, error, result, exit_code, ident_vars, cap_vars >>

\* get_atom_name(event.atom) answers; the relevance check follows
GetAtomName ==
    /\ pc = "atom"
    /\ queries' = Append(queries, "GetAtomName")
    /\ UNCHANGED << property, class_reply >>
    /\ LET name == ServerAtomName(event.atom) IN
       IF name = "_NET_ACTIVE_WINDOW"
       THEN /\ atom_name' = Some(name)
            /\ pc' = "property"
            /\ UNCHANGED << config, event, value, wm_class, wm_name, resolved_name,
                            resolved_log, stdout, error, result, exit_code, ident_vars, cap_vars >>
       ELSE /\ NextIteration
            /\ UNCHANGED stdout

\* GetProperty replies the server may give for the changed property: one
\* window handle, no value at all, no property (format 0), or bytes.
PropertyReplies ==
    { [format |-> 32, values |-> <<v>>] : v \in 0..MaxWindow }
    \cup { [format |-> 32, values |-> <<>>],
           [format |-> 0, values |-> <<>>],
           [format |-> 8, values |-> <<1>>] }

\* GetPropertyReply::value32: the values when the format is 32, else None.
property_value32(reply) == IF reply.format = 32 THEN Some(reply.values) ELSE None

\* Mutant of property_first_u32: a reply without a value counts as 0.
property_first_u32_DefaultZero(reply) ==
    LET values == property_value32(reply) IN
    IF ~IsSome(values) \/ Unwrap(values) = <<>> THEN Ok(0) ELSE Ok(Head(Unwrap(values)))

\* property.value32().context(..)?.next().context(..)?
property_first_u32(reply) ==
    LET values == property_value32(reply) IN
    IF ~IsSome(values) THEN Err("failed to get u32 value from atom")
    ELSE IF Unwrap(values) = <<>> THEN Err("missing u32 value from atom")
    ELSE Ok(Head(Unwrap(values)))

\* get_property(event.window, event.atom) fails
GetPropertyFail ==
    /\ pc = "property"
    /\ queries' = Append(queries, "GetProperty")
    /\ UNCHANGED << property, class_reply >>
    /\ \E msg \in {"failed to make GetProperty reply", "GetProperty response failed"} :
          ReturnErr(msg)

\* get_property answers, and the first u32 value of the reply is taken
GetProperty ==
    /\ pc = "property"
    /\ queries' = Append(queries, "GetProperty")
    /\ \E reply \in PropertyReplies :
          /\ property' = Some(reply)
          /\ UNCHANGED class_reply
          /\ LET first == property_first_u32(reply) IN
             IF IsOk(first)
             THEN /\ value' = Some(first[2])
                  /\ pc' = "resolve"
                  /\ UNCHANGED << config, event, atom_name, wm_class, wm_name, resolved_name,
                                  resolved_log, stdout, error, result, exit_code,
                                  ident_vars, cap_vars >>
             ELSE ReturnErr(first[2])

\* The window real_main hands to Resolver::resolve.
WindowArgument(v) ==
    LET window == NonNullWindow_new(v) IN IF IsSome(window) THEN Unwrap(window) ELSE 0

\* Resolver::resolve on window 0: the desktop name, no query
ResolveDesktop ==
    /\ pc = "resolve"
    /\ ~IsSome(NonNullWindow_new(WindowArgument(Unwrap(value))))
    /\ resolved_name' = Some(Resolver_resolve_desktop(config))
    /\ resolved_log' = Append(resolved_log, Resolver_resolve_desktop(config))
    /\ pc' = "render"
    /\ UNCHANGED << config, event, atom_name, value, wm_class, wm_name, queries, property, class_reply,
                    stdout, error, result, exit_code, ident_vars, cap_vars >>

\* WmClass::get fails, or the class is not UTF-8
WmClassFail ==
    /\ pc = "resolve"
    /\ IsSome(NonNullWindow_new(WindowArgument(Unwrap(value))))
    /\ queries' = Append(queries, "WM_CLASS")
    /\ UNCHANGED << property, class_reply >>
    /\ \E msg \in {"failed to make WmClass reply", "WmClass response failed",
                   "WM_CLASS contains invalid utf-8"} : ReturnErr(msg)

\* Mutant of WmClassReply: a class that has an entry in the rule table is
\* resolved at once, without the name query.
WmClassReply_LookupBeforeName ==
    /\ pc = "resolve"
    /\ IsSome(NonNullWindow_new(WindowArgument(Unwrap(value))))
    /\ queries' = Append(queries, "WM_CLASS")
    /\ UNCHANGED property
    /\ \E c \in ClassReplies :
          /\ wm_class' = Some(c)
          /\ class_reply' = Some(c)
          /\ IF [kind |-> "Class", value |-> c] \in DOMAIN config.filters
             THEN /\ wm_name' = Some(<<>>)
                  /\ resolved_name' = Some(Resolver_resolve_values(config, c, <<>>))
                  /\ resolved_log' =
                        Append(resolved_log, Resolver_resolve_values(config, c, <<>>))
                  /\ pc' = "render"
             ELSE /\ pc' = "wm_name"
                  /\ UNCHANGED << wm_name, resolved_name, resolved_log >>
    /\ UNCHANGED << config, event, atom_name, value,
                    stdout, error, result, exit_code, ident_vars, cap_vars >>

\* WmClass::get answers
WmClassReply ==
    /\ pc = "resolve"
    /\ IsSome(NonNullWindow_new(WindowArgument(Unwrap(value))))
    /\ queries' = Append(queries, "WM_CLASS")
    /\ UNCHANGED property
    /\ \E c \in ClassReplies : wm_class' = Some(c) /\ class_reply' = Some(c)
    /\ pc' = "wm_name"
    /\ UNCHANGED << config, event, atom_name, value, wm_name, resolved_name,
                    resolved_log, stdout, error, result, exit_code, ident_vars, cap_vars >>

\* get_property(WM_NAME) fails, or the name is not UTF-8
WmNameFail ==
    /\ pc = "wm_name"
    /\ queries' = Append(queries, "WM_NAME")
    /\ UNCHANGED << property, class_reply >>
    /\ \E msg \in {"failed to make GetProperty reply for retrieving WM_NAME",
                   "GetProperty response for retrieving WM_NAME failed",
                   "WM_NAME contains invalid utf-8"} : ReturnErr(msg)

\* get_property(WM_NAME) answers; the filter is found and applied, and
\* Resolver::resolve returns
WmNameReply ==
    /\ pc = "wm_name"
    /\ queries' = Append(queries, "WM_NAME")
    /\ UNCHANGED << property, class_reply >>
    /\ \E n \in NameReplies :
          /\ wm_name' = Some(n)
          /\ resolved_name' = Some(Resolver_resolve_values(config, Unwrap(wm_class), n))
          /\ resolved_log' =
                Append(resolved_log, Resolver_resolve_values(config, Unwrap(wm_class), n))
    /\ pc' = "render"
    /\ UNCHANGED << config, event, atom_name, value, wm_class,
                    stdout, error, result, exit_code, ident_vars, cap_vars >>

\* Mutant of RenderFail: the event is dropped and the loop waits again.
RenderFail_SkipsEvent ==
    /\ pc = "render"
    /\ UNCHANGED << queries, property, class_reply, stdout >>
    /\ NextIteration

\* handlebars.render fails
RenderFail ==
    /\ pc = "render"
    /\ UNCHANGED << queries, property, class_reply >>
    /\ ReturnErr("failed to render template")

\* handlebars.render succeeds and println! writes the line
RenderPrint ==
    /\ pc = "render"
    /\ stdout' = Println(stdout, RenderedLine(Unwrap(resolved_name)))
    /\ UNCHANGED << queries, property, class_reply >>
    /\ NextIteration

\* Mutant of Main: the crash line is printed and the success status returned.
Main_ExitsSuccess ==
    /\ pc = "returned"
    /\ pc' = "exited"
    /\ stdout' = Println(stdout, CrashLine)
    /\ exit_code' = Some("SUCCESS")
    /\ UNCHANGED << config, event, atom_name, value, wm_class, wm_name, resolved_name,
                    queries, property, class_reply, resolved_log, error, result, ident_vars, cap_vars >>

\* main: the crash line and ExitCode::FAILURE on Err, else ExitCode::SUCCESS
Main ==
    /\ pc = "returned"
    /\ pc' = "exited"
    /\ IF ~IsOk(Unwrap(result))
       THEN /\ stdout' = Println(stdout, CrashLine)
            /\ exit_code' = Some("FAILURE")
       ELSE /\ stdout' = stdout
            /\ exit_code' = Some("SUCCESS")
    /\ UNCHANGED << config, event, atom_name, value, wm_class, wm_name, resolved_name,
                    queries, property, class_reply, resolved_log, error, result, ident_vars, cap_vars >>

Next ==
    \/ RegisterTemplate
    \/ Connect
    \/ Subscribe
    \/ WaitForEventFail
    \/ ReceiveOtherEvent
    \/ ReceivePropertyNotify
    \/ GetAtomNameFail
    \/ GetAtomName
    \/ GetPropertyFail
    \/ GetProperty
    \/ ResolveDesktop
    \/ WmClassFail
    \/ WmClassReply
    \/ WmNameFail
    \/ WmNameReply
    \/ RenderFail
    \/ RenderPrint
    \/ Main

Spec == Init /\ [][Next]_vars

\* Every step but the arrival of an event: a call that has been made returns,
\* with a reply or with an error, and the code after it runs.
Processing ==
    \/ RegisterTemplate
    \/ Connect
    \/ Subscribe
    \/ GetAtomNameFail
    \/ GetAtomName
    \/ GetPropertyFail
    \/ GetProperty
    \/ ResolveDesktop
    \/ WmClassFail
    \/ WmClassReply
    \/ WmNameFail
    \/ WmNameReply
    \/ RenderFail
    \/ RenderPrint
    \/ Main

\* The loop when the server answers every request: only wait_for_event may
\* block for ever.
LiveSpec == Init /\ [][Next]_vars /\ WF_vars(Processing)

\* ------------------------------------------- WindowIdentifier text form
\* Characters of the identifier values and parser inputs explored.
IdentAlphabet == {"=", "c", "N", "x"}
IdentStrings == UNION { [1..k -> IdentAlphabet] : k \in 0..MaxLen }
WindowIdentifiers == [kind : WindowIdentifierKind, value : IdentStrings]

\* While the configuration is read: a WindowIdentifier about to be serialized,
\* or a text about to be parsed as a rule-table key.
InitIdent ==
    /\ config = Resolver_default
    /\ pc = "config"
    /\ event = NoEvent
    /\ atom_name = None
    /\ value = None
    /\ wm_class = None
    /\ wm_name = None
    /\ resolved_name = None
    /\ queries = <<>>
    /\ property = None
    /\ class_reply = None
    /\ resolved_log = <<>>
    /\ stdout = <<>>
    /\ error = None
    /\ result = None
    /\ exit_code = None
    /\ parsed = None
    /\ cap_mode = None
    /\ cap_input = None
    /\ cap_output = None
    /\ \/ /\ ident \in { Some(id) : id \in WindowIdentifiers }
          /\ text = None
       \/ /\ ident = None
          /\ text \in { Some(s) : s \in IdentStrings }

\* SerializeDisplay: the identifier written with its Display form
Serialize ==
    /\ pc = "config"
    /\ IsSome(ident)
    /\ text = None
    /\ text' = Some(WindowIdentifier_fmt(Unwrap(ident)))
    /\ UNCHANGED << loop_vars, ident, parsed, cap_vars >>

\* DeserializeFromStr: the text parsed with WindowIdentifier::from_str
Parse ==
    /\ pc = "config"
    /\ IsSome(text)
    /\ parsed = None
    /\ parsed' = Some(WindowIdentifier_from_str(Unwrap(text)))
    /\ UNCHANGED << loop_vars, ident, text, cap_vars >>

NextIdent ==
    \/ Serialize
    \/ Parse

SpecIdent == InitIdent /\ [][NextIdent]_vars

\* -------------------------------------------------- Resolver::resolve claims
ClassKey == [kind |-> "Class", value |-> Unwrap(wm_class)]
NameKey == [kind |-> "Name", value |-> Unwrap(wm_name)]
\* Resolver::resolve has returned for a non-zero window.
ResolvedWindow ==
    pc = "render" /\ IsSome(wm_class) /\ IsSome(wm_name) /\ IsSome(resolved_name)
\* The output a rule-table entry gives for the queried class.
EntryOutput(f) ==
    IF f.filter = "new_name" THEN f.name
    ELSE IF f.options.capitalize = None THEN Unwrap(wm_class)
    ELSE IF f.options.capitalize = Some("FirstLetter") THEN capitalize_first(Unwrap(wm_class))
    ELSE to_case_Title(Unwrap(wm_class))

\* C1: when the active-window property holds the handle 0, the step that
\* follows is Resolver::resolve returning desktop_name (the empty string when
\* desktop_name is unset) with no class query and no name query sent, whatever
\* the rule table holds.
C1_ZeroHandleIsDesktop ==
    [][ (pc = "resolve" /\ value = Some(0)) =>
            /\ pc' = "render"
            /\ resolved_name' =
                  Some(IF config.desktop_name = None THEN <<>> ELSE Unwrap(config.desktop_name))
            /\ queries' = queries
            /\ wm_class' = None
            /\ wm_name' = None ]_vars

C1_Witness ==
    /\ pc = "render"
    /\ value = Some(0)
    /\ resolved_name = Some(DesktopName)
    /\ DOMAIN config.filters = FilterKeys
    /\ queries = <<"GetAtomName", "GetProperty">>

\* C2: when the rule table holds a Class-keyed filter for the queried class,
\* resolve returns that filter's output, whether or not a Name-keyed filter
\* for the queried name exists too.
C2_ClassPrecedesName ==
    (ResolvedWindow /\ ClassKey \in DOMAIN config.filters) =>
        Unwrap(resolved_name) = EntryOutput(config.filters[ClassKey])

C2_Witness ==
    /\ ResolvedWindow
    /\ ClassKey \in DOMAIN config.filters
    /\ NameKey \in DOMAIN config.filters
    /\ config.filters[NameKey].filter = "new_name"
    /\ config.filters[ClassKey] = Filter_Options([capitalize |-> Some("AllWords")])
    /\ resolved_name = Some(<<"A", " ", "B">>)

\* C3: when no Class-keyed filter exists for the queried class and a
\* Name-keyed filter exists for the queried name, resolve returns the output of
\* the Name-keyed filter, not that of global_options, even when global_options
\* is present.
C3_NamePrecedesGlobal ==
    (ResolvedWindow /\ ClassKey \notin DOMAIN config.filters
                    /\ NameKey \in DOMAIN config.filters) =>
        Unwrap(resolved_name) = EntryOutput(config.filters[NameKey])

C3_Witness ==
    /\ ResolvedWindow
    /\ ClassKey \notin DOMAIN config.filters
    /\ NameKey \in DOMAIN config.filters
    /\ config.filters[NameKey] = Filter_Options([capitalize |-> None])
    /\ config.global_options = Some([capitalize |-> Some("FirstLetter")])
    /\ resolved_name = Some(<<"c", "d">>)

\* C4: for a non-zero handle, no filter entry for the queried class or the
\* queried name, and global_options present, resolve returns the configured
\* capitalization of the class value (the class value itself when
\* global_options.capitalize is unset).
C4_GlobalOptionsFallback ==
    (ResolvedWindow /\ ClassKey \notin DOMAIN config.filters
                    /\ NameKey \notin DOMAIN config.filters
                    /\ IsSome(config.global_options)) =>
        Unwrap(resolved_name) =
            LET mode == Unwrap(config.global_options).capitalize IN
            IF mode = None THEN Unwrap(wm_class)
            ELSE IF mode = Some("FirstLetter") THEN capitalize_first(Unwrap(wm_class))
            ELSE to_case_Title(Unwrap(wm_class))

C4_Witness ==
    /\ ResolvedWindow
    /\ ClassKey \notin DOMAIN config.filters
    /\ NameKey \notin DOMAIN config.filters
    /\ config.global_options = Some([capitalize |-> Some("AllWords")])
    /\ wm_class = Some(<<"a", " ", "b">>)
    /\ resolved_name = Some(<<"A", " ", "B">>)

\* C5: for a non-zero handle, no filter entry for the queried class or the
\* queried name, and global_options absent, resolve returns the class value
\* unchanged.
C5_NoFilterIsIdentity ==
    (ResolvedWindow /\ ClassKey \notin DOMAIN config.filters
                    /\ NameKey \notin DOMAIN config.filters
                    /\ config.global_options = None) =>
        resolved_name = wm_class

C5_Witness ==
    /\ ResolvedWindow
    /\ DOMAIN config.filters = FilterKeys
    /\ ClassKey \notin DOMAIN config.filters
    /\ NameKey \notin DOMAIN config.filters
    /\ config.global_options = None
    /\ resolved_name = Some(<<"c", "d">>)

\* C6: when the filter resolve selects, by class key or else by name key, is
\* NewName(s), the resolved string is s itself, for every queried class and
\* name and every global_options.
C6_NewNameVerbatim ==
    ResolvedWindow =>
        /\ (ClassKey \in DOMAIN config.filters
               /\ config.filters[ClassKey].filter = "new_name")
              => Unwrap(resolved_name) = config.filters[ClassKey].name
        /\ (ClassKey \notin DOMAIN config.filters
               /\ NameKey \in DOMAIN config.filters
               /\ config.filters[NameKey].filter = "new_name")
              => Unwrap(resolved_name) = config.filters[NameKey].name

C6_Witness ==
    /\ ResolvedWindow
    /\ ClassKey \notin DOMAIN config.filters
    /\ NameKey \in DOMAIN config.filters
    /\ config.filters[NameKey] = Filter_NewName(<<"F">>)
    /\ config.global_options = Some([capitalize |-> Some("AllWords")])
    /\ resolved_name = Some(<<"F">>)

\* ------------------------------------------------------ watch loop claims
\* The loop has reached Failed: real_main has returned an error.
Failed == pc \in {"returned", "exited"} /\ IsSome(result) /\ ~IsOk(Unwrap(result))
\* The resolved output lines printed so far, in order.
ResolvedLines == SelectSeq(stdout, LAMBDA l : l # CrashLine)

\* C7: every error a call of real_main produces moves the loop to Failed
\* with that error, and the step prints nothing; once Failed, no event is
\* awaited, no query is sent, Resolver::resolve returns nothing more, and the
\* only line ever printed is the crash line, so the failed event gets no
\* resolved output line.
C7_ErrorsAreFatal ==
    [][ /\ IsSome(error') =>
              /\ pc' \in {"returned", "exited"}
              /\ result' = Some(Err(Unwrap(error')))
        /\ (error = None /\ IsSome(error')) => stdout' = stdout
        /\ IsSome(error) =>
              /\ error' = error
              /\ pc' \in {"returned", "exited"}
              /\ event' = event
              /\ queries' = queries
              /\ resolved_log' = resolved_log
              /\ stdout' \in {stdout, Append(stdout, CrashLine)} ]_vars

C7_Witness ==
    /\ Failed
    /\ pc = "exited"
    /\ error = Some("failed to render template")
    /\ Len(resolved_log) = 2
    /\ ResolvedLines = <<RenderedLine(resolved_log[1])>>
    /\ queries = <<"GetAtomName", "GetProperty", "WM_CLASS", "WM_NAME">>

\* C8: the resolved output lines are, in order, the renderings of the strings
\* Resolver::resolve returned, one line each, for all events but one whose
\* resolved name is still to be rendered or whose render failed.
C8_OneLinePerResolvedEvent ==
    LET pending == IF pc = "render" \/ error = Some("failed to render template")
                   THEN 1 ELSE 0
    IN /\ Len(resolved_log) = Len(ResolvedLines) + pending
       /\ \A i \in 1..Len(ResolvedLines) : ResolvedLines[i] = RenderedLine(resolved_log[i])

C8_Witness ==
    /\ pc = "wait"
    /\ Len(ResolvedLines) = 2
    /\ ResolvedLines[1] = RenderedLine(<<>>)
    /\ ResolvedLines[2] = RenderedLine(<<"A", " ", "b">>)

\* C9: the success status is never returned; the process has exited only
\* after the loop reached Failed, with the failure status and with the crash
\* line printed once, as the last line; before the exit no crash line is
\* printed and no status is set.
C9_NoSuccessfulExit ==
    /\ exit_code # Some("SUCCESS")
    /\ pc \in {"returned", "exited"} => Failed
    /\ pc = "exited" =>
          /\ exit_code = Some("FAILURE")
          /\ Len(stdout) >= 1
          /\ stdout[Len(stdout)] = CrashLine
          /\ Cardinality({ i \in 1..Len(stdout) : stdout[i] = CrashLine }) = 1
    /\ pc # "exited" =>
          /\ exit_code = None
          /\ \A i \in 1..Len(stdout) : stdout[i] # CrashLine

C9_Witness ==
    /\ pc = "exited"
    /\ exit_code = Some("FAILURE")
    /\ Len(stdout) = 3
    /\ stdout[3] = CrashLine
    /\ error = Some("could not wait for event")

\* ---------------------------------------------- WindowIdentifier claims
\* C10: parsing the serialized form of a WindowIdentifier gives back the
\* identifier, also when its value holds '='; parsing a text that holds no
\* '=' fails.
C10_IdentifierRoundTrip ==
    IsSome(parsed) =>
        /\ IsSome(ident) =>
              /\ IsOk(Unwrap(parsed))
              /\ Unwrap(parsed)[2] = Unwrap(ident)
        /\ (\A i \in 1..Len(Unwrap(text)) : Unwrap(text)[i] # "=") =>
              ~IsOk(Unwrap(parsed))

C10_Witness ==
    /\ ident = Some([kind |-> "Name", value |-> <<"x", "=", "=">>])
    /\ text = Some(<<"w", "m", "_", "n", "a", "m", "e", "=", "x", "=", "=">>)
    /\ parsed = Some(Ok(Unwrap(ident)))

\* --------------------------------------------------- capitalization alone
\* Characters of the strings explored: a lowercase and an uppercase letter,
\* two delimiters and the expanding lowercase letter.
CapAlphabet == {"a", "B", " ", "-", SharpS}
Firefox == <<"f", "i", "r", "e", "f", "o", "x">>
VisualStudioCode ==
    << "v", "i", "s", "u", "a", "l", " ", "s", "t", "u", "d", "i", "o", " ", "c", "o", "d", "e" >>
CodeEditor == <<"c", "o", "d", "e", " ", "e", "d", "i", "t", "o", "r">>
CapStrings ==
    UNION { [1..k -> CapAlphabet] : k \in 0..MaxCapLen }
    \cup {Firefox, VisualStudioCode, CodeEditor}

\* Inside Resolver::resolve with an empty rule table, both queries answered,
\* global_options holding a mode: the mode is about to be applied to the class.
InitCap ==
    /\ cap_mode \in { Some(m) : m \in CapitalizeMode }
    /\ cap_input \in { Some(v) : v \in CapStrings }
    /\ cap_output = None
    /\ config = [ global_options |-> Some([capitalize |-> cap_mode]),
                  desktop_name |-> Some(DesktopName),
                  filters |-> << >> ]
    /\ pc = "filters"
    /\ event = PropertyNotify("active")
    /\ atom_name = Some("_NET_ACTIVE_WINDOW")
    /\ value = Some(1)
    /\ wm_class = cap_input
    /\ wm_name = Some(<<"n">>)
    /\ resolved_name = None
    /\ queries = <<"GetAtomName", "GetProperty", "WM_CLASS", "WM_NAME">>
    /\ property = Some([format |-> 32, values |-> <<1>>])
    /\ class_reply = cap_input
    /\ resolved_log = <<>>
    /\ stdout = <<>>
    /\ error = None
    /\ result = None
    /\ exit_code = None
    /\ ident = None
    /\ text = None
    /\ parsed = None

\* CapitalizeMode::capitalize applied to the string
ApplyCapitalize ==
    /\ IsSome(cap_input)
    /\ cap_output = None
    /\ cap_output' = Some(capitalize(Unwrap(cap_mode), Unwrap(cap_input)))
    /\ UNCHANGED << loop_vars, ident_vars, cap_mode, cap_input >>

\* The filter found and applied to the class, the end of Resolver::resolve
ApplyFilter ==
    /\ pc = "filters"
    /\ resolved_name = None
    /\ resolved_name' =
          Some(Resolver_resolve_values(config, Unwrap(wm_class), Unwrap(wm_name)))
    /\ UNCHANGED << config, pc, event, atom_name, value, wm_class, wm_name, queries, property, class_reply,
                    resolved_log, stdout, error, result, exit_code, ident_vars, cap_vars >>

NextCap ==
    \/ ApplyCapitalize
    \/ ApplyFilter

SpecCap == InitCap /\ [][NextCap]_vars

\* -------------------------------------------------- capitalization claims
\* The maximal runs of characters other than " " of a string.
RECURSIVE SpaceSeparated(_, _, _)
SpaceSeparated(s, cur, words) ==
    IF s = <<>> THEN Append(words, cur)
    ELSE IF Head(s) = " " THEN SpaceSeparated(Tail(s), <<>>, Append(words, cur))
    ELSE SpaceSeparated(Tail(s), Append(cur, Head(s)), words)

\* C11: capitalize(FirstLetter, v) gives the empty string for the empty
\* string, and otherwise the uppercase mapping of the first character of v
\* followed by the remaining characters of v unchanged; "firefox" gives
\* "Firefox".
C11_FirstLetter ==
    (cap_mode = Some("FirstLetter") /\ IsSome(cap_output)) =>
        LET v == Unwrap(cap_input)
            out == Unwrap(cap_output)
        IN /\ v = <<>> => out = <<>>
           /\ v # <<>> =>
                 LET up == ToUppercase(v[1]) IN
                 /\ Len(out) = Len(up) + Len(v) - 1
                 /\ \A i \in 1..Len(up) : out[i] = up[i]
                 /\ \A i \in 2..Len(v) : out[Len(up) + i - 1] = v[i]
           /\ v = Firefox => out = <<"F", "i", "r", "e", "f", "o", "x">>
           /\ v = <<SharpS, "B">> => out = <<"S", "S", "B">>

C11_Witness ==
    /\ cap_mode = Some("FirstLetter")
    /\ cap_input = Some(Firefox)
    /\ cap_output = Some(<<"F", "i", "r", "e", "f", "o", "x">>)

\* C12: capitalize(AllWords, v) is the words of v, each with its first
\* character uppercased and its other characters lowercased, separated by
\* single spaces; "visual studio code" gives "Visual Studio Code", and with
\* an empty rule table and global_options.capitalize = AllWords the class
\* "code editor" resolves to "Code Editor".
C12_AllWords ==
    cap_mode = Some("AllWords") =>
        /\ IsSome(cap_output) =>
              LET words == SplitWords(Unwrap(cap_input), <<>>, <<>>)
                  out == Unwrap(cap_output)
                  outWords == SpaceSeparated(out, <<>>, <<>>)
              IN /\ words = <<>> => out = <<>>
                 /\ words # <<>> =>
                       /\ Len(outWords) = Len(words)
                       /\ \A i \in 1..Len(words) :
                             outWords[i] = ToUppercase(words[i][1])
                                              \o StrToLowercase(Tail(words[i]))
                 /\ cap_input = Some(VisualStudioCode) =>
                       out = << "V", "i", "s", "u", "a", "l", " ", "S", "t", "u", "d", "i", "o",
                                " ", "C", "o", "d", "e" >>
        /\ (IsSome(resolved_name) /\ wm_class = Some(CodeEditor) /\ pc = "filters") =>
              resolved_name = Some(<<"C", "o", "d", "e", " ", "E", "d", "i", "t", "o", "r">>)

C12_Witness ==
    /\ cap_mode = Some("AllWords")
    /\ cap_input = Some(CodeEditor)
    /\ cap_output = Some(<<"C", "o", "d", "e", " ", "E", "d", "i", "t", "o", "r">>)
    /\ config.filters = << >>
    /\ config.global_options = Some([capitalize |-> Some("AllWords")])
    /\ wm_class = Some(CodeEditor)
    /\ resolved_name = cap_output

\* ------------------------------------------------- event handling claims
\* The event is a property-change notification for the active-window property.
Relevant(ev) ==
    ev.type = "PropertyNotify" /\ ServerAtomName(ev.atom) = "_NET_ACTIVE_WINDOW"
\* The query log holds a property-value, class or name query.
QueriedBeyondAtomName ==
    \E i \in 1..Len(queries) : queries[i] \in {"GetProperty", "WM_CLASS", "WM_NAME"}
AtomNameErrors ==
    {"failed to make GetAtomName reply", "GetAtomName response failed",
     "atom name contains invalid utf-8"}

\* C13 as stated: a resolved line is printed only for a relevant event, and
\* every other event sends no property-value, class or name query, prints
\* nothing, and is followed by the loop waiting again.
C13_AsStated ==
    [][ /\ Len(ResolvedLines') > Len(ResolvedLines) => Relevant(event)
        /\ ~Relevant(event') => ~QueriedBeyondAtomName'
        /\ (pc = "wait" /\ event' = OtherEvent /\ error' = None) =>
              (pc' = "wait" /\ stdout' = stdout)
        /\ (pc = "atom" /\ ~Relevant(event)) =>
              (pc' = "wait" /\ stdout' = stdout) ]_vars

\* C13: a resolved line is printed only for a property-change notification
\* whose property is named _NET_ACTIVE_WINDOW; every other event sends no
\* property-value, class or name query and prints nothing, and the loop waits
\* again after it, unless the atom-name query sent for a notification of
\* another property fails, which moves the loop to Failed.
C13_OnlyActiveWindowEvents ==
    [][ /\ Len(ResolvedLines') > Len(ResolvedLines) => Relevant(event)
        /\ ~Relevant(event') => ~QueriedBeyondAtomName'
        /\ (pc = "wait" /\ event' = OtherEvent /\ error' = None) =>
              (pc' = "wait" /\ stdout' = stdout)
        /\ (pc = "atom" /\ ~Relevant(event)) =>
              /\ stdout' = stdout
              /\ \/ pc' = "wait" /\ error' = None
                 \/ pc' = "returned" /\ error' \in { Some(m) : m \in AtomNameErrors } ]_vars

C13_Witness ==
    /\ pc = "wait"
    /\ event = PropertyNotify("other")
    /\ queries = <<"GetAtomName">>
    /\ error = None
    /\ Len(stdout) = 1

\* The locals of one loop iteration are out of scope.
NoLocals ==
    /\ atom_name = None
    /\ value = None
    /\ wm_class = None
    /\ wm_name = None
    /\ resolved_name = None

\* C14: an event is received only while the loop waits with no event in
\* progress; the loop waits again after an active-window event only by
\* printing the line of the name resolved for it; and when the server answers
\* every request, each active-window event that reached the property read is
\* followed by the loop waiting again or by Failed.
C14_OneEventAtATime ==
    /\ [](pc = "wait" => NoLocals)
    /\ [][ (event' # event \/ pc' = "atom") => (pc = "wait" /\ NoLocals) ]_vars
    /\ [][ (pc \in {"property", "resolve", "wm_name", "render"} /\ pc' = "wait") =>
              /\ pc = "render"
              /\ stdout' = Append(stdout, RenderedLine(Unwrap(resolved_name))) ]_vars
    /\ (pc = "property") ~> (pc = "wait" \/ IsSome(error))

C14_Witness ==
    /\ pc = "property"
    /\ Len(stdout) = 1
    /\ event = PropertyNotify("active")
    /\ queries = <<"GetAtomName">>

StartupErrors ==
    {"failed to establish a connection to the X server",
     "failed to make ChangeWindowAttributes reply",
     "ChangeWindowAttributes response failed"}

\* C15: when connecting to the server or registering for property-change
\* notifications has failed, the loop is Failed and no event was ever
\* received, no query of the event processing was sent, Resolver::resolve
\* returned nothing and no resolved line was printed.
C15_StartupFailureIsFatal ==
    (IsSome(error) /\ Unwrap(error) \in StartupErrors) =>
        /\ Failed
        /\ result = Some(Err(Unwrap(error)))
        /\ event = NoEvent
        /\ queries = <<>>
        /\ property = None
        /\ resolved_log = <<>>
        /\ ResolvedLines = <<>>

C15_Witness ==
    /\ pc = "exited"
    /\ error = Some("ChangeWindowAttributes response failed")
    /\ stdout = <<CrashLine>>
    /\ event = NoEvent

\* The GetProperty reply read for the event holds no 32-bit value.
PropertyHasNoU32 ==
    /\ IsSome(property)
    /\ Unwrap(property).format # 32 \/ Unwrap(property).values = <<>>

\* C16: when the reply read for an active-window notification holds no 32-bit
\* value, the loop is Failed with the error of the missing value, nothing was
\* resolved for the event and no line follows for it; and Resolver::resolve
\* has returned the desktop name only for a reply whose first value is 0.
C16_MissingValueIsFatal ==
    /\ PropertyHasNoU32 =>
          /\ Failed
          /\ error \in { Some("missing u32 value from atom"),
                         Some("failed to get u32 value from atom") }
          /\ Unwrap(property).format = 32 => error = Some("missing u32 value from atom")
          /\ value = None
          /\ resolved_name = None
          /\ Len(resolved_log) = Len(ResolvedLines)
          /\ queries = <<"GetAtomName", "GetProperty">>
    /\ (pc = "render" /\ wm_class = None) =>
          /\ IsSome(property)
          /\ Unwrap(property).format = 32
          /\ Unwrap(property).values # <<>>
          /\ Unwrap(property).values[1] = 0

C16_Witness ==
    /\ pc = "exited"
    /\ property = Some([format |-> 32, values |-> <<>>])
    /\ error = Some("missing u32 value from atom")
    /\ config.desktop_name = Some(DesktopName)
    /\ stdout = <<RenderedLine(DesktopName), CrashLine>>

\* ------------------------------------------ further Resolver::resolve claims
\* The NewName literals of the rule table.
TableNewNames ==
    { config.filters[k].name :
         k \in { j \in DOMAIN config.filters : config.filters[j].filter = "new_name" } }
\* The class value as it is and in its two capitalized forms.
ClassForms(c) == { c, capitalize_first(c), to_case_Title(c) }

\* C17: when the entry selected through the name key is an Options filter,
\* its transform is applied to the class value; and the string resolved for a
\* non-zero handle is a NewName literal of the table or the class value,
\* possibly capitalized: the name value never enters it.
C17_NameMatchTransformsClass ==
    ResolvedWindow =>
        /\ (ClassKey \notin DOMAIN config.filters
               /\ NameKey \in DOMAIN config.filters
               /\ config.filters[NameKey].filter = "options")
              => /\ Unwrap(resolved_name) = EntryOutput(config.filters[NameKey])
                 /\ Unwrap(resolved_name) \in ClassForms(Unwrap(wm_class))
        /\ Unwrap(resolved_name) \in ClassForms(Unwrap(wm_class)) \cup TableNewNames
        /\ Unwrap(resolved_name) \notin ClassForms(Unwrap(wm_name))

C17_Witness ==
    /\ ResolvedWindow
    /\ ClassKey \notin DOMAIN config.filters
    /\ NameKey \in DOMAIN config.filters
    /\ config.filters[NameKey] = Filter_Options([capitalize |-> Some("AllWords")])
    /\ config.global_options = None
    /\ wm_class = Some(<<"c", "d">>)
    /\ wm_name = Some(<<"n">>)
    /\ resolved_name = Some(<<"C", "d">>)

\* The entry Resolver::resolve selects from the rule table, if any.
SelectedEntry ==
    IF ClassKey \in DOMAIN config.filters THEN Some(config.filters[ClassKey])
    ELSE IF NameKey \in DOMAIN config.filters THEN Some(config.filters[NameKey])
    ELSE None

\* C18: when the entry selected from the rule table is an Options filter
\* with capitalize unset, resolve returns the class value unchanged, whatever
\* global_options holds: the entry replaces global_options, it is not merged
\* with it.
C18_FilterReplacesGlobal ==
    (ResolvedWindow /\ IsSome(SelectedEntry)
                    /\ Unwrap(SelectedEntry).filter = "options"
                    /\ Unwrap(SelectedEntry).options.capitalize = None) =>
        resolved_name = wm_class

C18_Witness ==
    /\ ResolvedWindow
    /\ ClassKey \in DOMAIN config.filters
    /\ config.filters[ClassKey] = Filter_Options([capitalize |-> None])
    /\ config.global_options = Some([capitalize |-> Some("AllWords")])
    /\ wm_class = Some(<<"a", " ", "b">>)
    /\ resolved_name = Some(<<"a", " ", "b">>)

WmClassErrors ==
    { Some(m) : m \in {"failed to make WmClass reply", "WmClass response failed",
                       "WM_CLASS contains invalid utf-8"} }
WmNameErrors ==
    { Some(m) : m \in {"failed to make GetProperty reply for retrieving WM_NAME",
                       "GetProperty response for retrieving WM_NAME failed",
                       "WM_NAME contains invalid utf-8"} }
EventPrefix == <<"GetAtomName", "GetProperty">>

\* C19: for a non-zero handle the class query comes first and the name query
\* second, and nothing is resolved before both have answered, whatever the rule
\* table holds; a failed class query stops the event without a name query; a
\* failed name query stops it with nothing resolved, also when the class read
\* has an entry in the rule table; and either failure leaves the loop Failed.
C19_ClassThenNameBeforeLookup ==
    /\ IsSome(resolved_name) /\ IsSome(wm_class) =>
          queries = EventPrefix \o <<"WM_CLASS", "WM_NAME">>
    /\ pc = "wm_name" =>
          /\ queries = EventPrefix \o <<"WM_CLASS">>
          /\ IsSome(wm_class) /\ wm_name = None /\ resolved_name = None
    /\ error \in WmClassErrors =>
          /\ queries = EventPrefix \o <<"WM_CLASS">>
          /\ class_reply = None
          /\ Failed /\ resolved_name = None
          /\ Len(resolved_log) = Len(ResolvedLines)
    /\ error \in WmNameErrors =>
          /\ queries = EventPrefix \o <<"WM_CLASS", "WM_NAME">>
          /\ IsSome(class_reply)
          /\ Failed /\ resolved_name = None
          /\ Len(resolved_log) = Len(ResolvedLines)
    /\ (IsSome(class_reply) /\ ~IsSome(error)
           /\ [kind |-> "Class", value |-> Unwrap(class_reply)] \in DOMAIN config.filters
           /\ pc \in {"render", "wait"}) =>
          queries = EventPrefix \o <<"WM_CLASS", "WM_NAME">>

C19_Witness ==
    /\ pc = "exited"
    /\ error = Some("WM_NAME contains invalid utf-8")
    /\ class_reply = Some(<<"a", " ", "b">>)
    /\ [kind |-> "Class", value |-> <<"a", " ", "b">>] \in DOMAIN config.filters
    /\ config.filters[[kind |-> "Class", value |-> <<"a", " ", "b">>]] = Filter_NewName(<<"F">>)
    /\ queries = EventPrefix \o <<"WM_CLASS", "WM_NAME">>
    /\ stdout = <<CrashLine>>

\* C20: the atom-name query is sent for every PropertyNotify, as the first
\* query of the event and before the name is known and compared; its failure
\* or invalid encoding leaves the loop Failed with no other query sent, also
\* when the notification is for a property other than the active-window one.
C20_AtomNameQueryForEveryNotify ==
    /\ pc = "atom" =>
          /\ event.type = "PropertyNotify"
          /\ queries = <<>> /\ atom_name = None
    /\ (event.type = "PropertyNotify" /\ pc # "atom") =>
          /\ queries # <<>>
          /\ Head(queries) = "GetAtomName"
    /\ (event.type = "PropertyNotify" /\ ~Relevant(event) /\ pc # "atom") =>
          /\ queries = <<"GetAtomName">>
          /\ pc = "wait" \/ (Failed /\ error \in { Some(m) : m \in AtomNameErrors \cup {"could not wait for event"} })
    /\ error \in { Some(m) : m \in AtomNameErrors } =>
          /\ Failed
          /\ event.type = "PropertyNotify"
          /\ queries = <<"GetAtomName">>
          /\ resolved_name = None
          /\ Len(resolved_log) = Len(ResolvedLines)

C20_Witness ==
    /\ pc = "exited"
    /\ event = PropertyNotify("other")
    /\ error = Some("atom name contains invalid utf-8")
    /\ queries = <<"GetAtomName">>
    /\ exit_code = Some("FAILURE")
    /\ stdout = <<CrashLine>>

====
